---- MODULE Spec2Model ----
(***************************************************************************)
(* A model of cantools' diagnostics bit numbering, CDD loader, format      *)
(* compiler and codec:                                                     *)
(*   src/cantools/database/utils.py                                        *)
(*   src/cantools/database/diagnostics/formats/cdd.py                      *)
(*                                                                         *)
(* Five specifications share the variables below:                          *)
(*   SpecBits    calls of the bit-numbering functions                      *)
(*   SpecLoad    _load_did_element, one data object per step               *)
(*   SpecFormats create_encode_decode_formats, one loop iteration per step *)
(*   SpecCodec   create_encode_decode_formats, encode_data, decode_data    *)
(*   SpecField   calls of _encode_field                                    *)
(*                                                                         *)
(* Bit strings ('1' * n, the bytes bitstruct packs) are sequences of 0/1,  *)
(* most significant bit first.  Python integers are TLA+ integers.         *)
(***************************************************************************)
EXTENDS Integers, Sequences, FiniteSets, TLC

VARIABLES
    pc,               \* position of the running operation
    call,             \* the function call in progress: its name and arguments
    ret,              \* its outcome: a returned value or the exception raised
    offset,           \* _load_did_element: cumulative linear bit offset
    datas,            \* the Did's list of Data objects, in declaration order
    number_of_bytes,  \* the Did's length
    loop,             \* create_big / create_little locals: index, cursor, items
    big,              \* what create_big returned
    little,           \* what create_little returned
    formats,          \* the Formats tuple
    data,             \* encode_data's input: field name -> value
    packed_union,     \* encode_data's result
    decoded           \* decode_data's result

vars == <<pc, call, ret, offset, datas, number_of_bytes, loop, big, little,
          formats, data, packed_union, decoded>>

----------------------------------------------------------------------------
(* Bounds of the model.                                                    *)

\* Largest linear bit index passed to the bit-numbering functions.
MaxLinearBit == 71
\* Largest field width passed to the bit-numbering functions.
MaxBitLen == 32
\* Largest number of data objects of a loaded DID.
MaxDataObjs == 3
\* Largest Did length, in bytes, of a compiled frame.
MaxBytes == 2
\* Largest number of Data objects of a compiled frame.
MaxFields == 3
\* Compiled frames place fields at multiples of BitGrain bits, with widths that
\* are multiples of BitGrain.
BitGrain == 4
\* Largest magnitudes of the physical value, the scale and the offset of a
\* call of _encode_field.
MaxValue == 7
MaxScale == 3
MaxOffset == 2
\* Largest bit length ('bl') of a data type of a loaded document.
MaxTypeBits == 16
\* Largest number of Data objects of an encoded frame.
MaxCodecFields == 2

----------------------------------------------------------------------------
(* Python values.                                                          *)

\* The absent value of an outcome that is an exception.
NoValue == -1

Returned(v) == [outcome |-> "return", value |-> v]

Raised(exc) == [outcome |-> exc, value |-> NoValue]

NoCall == [fn |-> "", byte_order |-> "", linear_first_bit |-> 0, bit_len |-> 0]

\* The byte order tags a caller may pass; "middle_endian" stands for every tag
\* that is neither of the two recognised ones.
ByteOrderTags == {"big_endian", "little_endian", "middle_endian"}

\* The names bound at module level in utils.py: its imports and definitions.
UtilsGlobals ==
    {"binascii", "copy", "Decimal", "namedtuple", "bitstruct", "Formats",
     "format_or", "format_and", "start_bit", "_encode_field", "_decode_field",
     "encode_data", "decode_data", "create_encode_decode_formats",
     "linear_to_saw_tooth_bitnum", "cdd_to_dbc_start_bit", "cdd_to_dbc_data"}

\* The names bound at module level in cdd.py.
CddGlobals ==
    {"logging", "ElementTree", "Data", "Did", "InternalDatabase", "Error",
     "LOGGER", "saw_tooth_from_linear_bitnum",
     "saw_tooth_start_from_linear_bitnum", "DataType", "_load_choices",
     "_load_data_types", "_load_data_element", "_load_did_element",
     "load_string"}

\* `raise Name(...)`: the name is looked up in the module's globals (then the
\* builtins, which hold no Error); an unbound name raises NameError instead.
RaiseNamed(globals, name) ==
    IF name \in globals THEN Raised(name) ELSE Raised("NameError")

----------------------------------------------------------------------------
(* Bit numbering.                                                          *)

\* A mutation of linear_to_saw_tooth_bitnum: the offset within the byte is
\* mirrored around 8 instead of 7.
linear_to_saw_tooth_bitnum_off_by_one(linear_bit_num) ==
    LET byte_num == linear_bit_num \div 8
        linear_bit_offset == linear_bit_num % 8
        saw_bit_offset == IF linear_bit_offset = 0 THEN 0 ELSE 8 - linear_bit_offset
    IN (byte_num * 8) + saw_bit_offset

linear_to_saw_tooth_bitnum(linear_bit_num) ==
    LET byte_num == linear_bit_num \div 8
        linear_bit_offset == linear_bit_num % 8
        saw_bit_offset == 7 - linear_bit_offset
    IN (byte_num * 8) + saw_bit_offset

\* A mutation of cdd_to_dbc_start_bit: the little-endian LSBit is taken one
\* bit past the field.
cdd_to_dbc_start_bit_past_end(byte_order, linear_first_bit, bit_len) ==
    IF byte_order = "big_endian"
    THEN Returned(linear_to_saw_tooth_bitnum(linear_first_bit))
    ELSE IF byte_order = "little_endian"
    THEN Returned(linear_to_saw_tooth_bitnum(linear_first_bit + bit_len))
    ELSE RaiseNamed(UtilsGlobals, "Error")

cdd_to_dbc_start_bit(byte_order, linear_first_bit, bit_len) ==
    IF byte_order = "big_endian"
    THEN Returned(linear_to_saw_tooth_bitnum(linear_first_bit))
    ELSE IF byte_order = "little_endian"
    THEN Returned(linear_to_saw_tooth_bitnum(linear_first_bit + bit_len - 1))
    ELSE RaiseNamed(UtilsGlobals, "Error")

saw_tooth_from_linear_bitnum(linear_bit_num) ==
    LET byte_num == linear_bit_num \div 8
        linear_bit_offset == linear_bit_num % 8
        saw_bit_offset == 7 - linear_bit_offset
    IN (byte_num * 8) + saw_bit_offset

saw_tooth_start_from_linear_bitnum(byte_order, linear_first_bit, bit_len) ==
    IF byte_order = "big_endian"
    THEN Returned(saw_tooth_from_linear_bitnum(linear_first_bit))
    ELSE IF byte_order = "little_endian"
    THEN Returned(saw_tooth_from_linear_bitnum(linear_first_bit + bit_len - 1))
    ELSE RaiseNamed(CddGlobals, "Error")

----------------------------------------------------------------------------
(* Values of the variables an operation does not use.                      *)

NoReturn == [outcome |-> "none", value |-> NoValue]

NoLoop == [i |-> 0, cursor |-> 0, items |-> <<>>]

NoProgram == [fmt |-> <<>>, padding_mask |-> {}, names |-> <<>>]

NoFormats ==
    [big_endian |-> [fmt |-> <<>>, names |-> <<>>],
     little_endian |-> [fmt |-> <<>>, names |-> <<>>],
     padding_mask |-> {}]

NoDict == [n \in {} |-> 0]

NoDecoded == [outcome |-> "none", values |-> NoDict]

----------------------------------------------------------------------------
(* SpecBits: one call of a bit-numbering function per behaviour.  Init     *)
(* draws the function and its arguments, the action applies it.            *)

BitCalls ==
    {[fn |-> "linear_to_saw_tooth_bitnum", byte_order |-> "",
      linear_first_bit |-> n, bit_len |-> 0] : n \in 0..MaxLinearBit}
    \cup
    [fn : {"cdd_to_dbc_start_bit", "saw_tooth_start_from_linear_bitnum"},
     byte_order : ByteOrderTags,
     linear_first_bit : 0..MaxLinearBit,
     bit_len : 1..MaxBitLen]

InitBits ==
    /\ pc = "called"
    /\ call \in BitCalls
    /\ ret = NoReturn
    /\ offset = 0
    /\ datas = <<>>
    /\ number_of_bytes = 0
    /\ loop = NoLoop
    /\ big = NoProgram
    /\ little = NoProgram
    /\ formats = NoFormats
    /\ data = NoDict
    /\ packed_union = {}
    /\ decoded = NoDecoded

LinearToSawToothBitnum ==
    /\ pc = "called"
    /\ call.fn = "linear_to_saw_tooth_bitnum"
    /\ ret' = Returned(linear_to_saw_tooth_bitnum(call.linear_first_bit))
    /\ pc' = "returned"
    /\ UNCHANGED <<call, offset, datas, number_of_bytes, loop, big, little,
                   formats, data, packed_union, decoded>>

CddToDbcStartBit ==
    /\ pc = "called"
    /\ call.fn = "cdd_to_dbc_start_bit"
    /\ ret' = cdd_to_dbc_start_bit(call.byte_order, call.linear_first_bit,
                                   call.bit_len)
    /\ pc' = "returned"
    /\ UNCHANGED <<call, offset, datas, number_of_bytes, loop, big, little,
                   formats, data, packed_union, decoded>>

SawToothStartFromLinearBitnum ==
    /\ pc = "called"
    /\ call.fn = "saw_tooth_start_from_linear_bitnum"
    /\ ret' = saw_tooth_start_from_linear_bitnum(call.byte_order,
                                                 call.linear_first_bit,
                                                 call.bit_len)
    /\ pc' = "returned"
    /\ UNCHANGED <<call, offset, datas, number_of_bytes, loop, big, little,
                   formats, data, packed_union, decoded>>

NextBits ==
    \/ LinearToSawToothBitnum
    \/ CddToDbcStartBit
    \/ SawToothStartFromLinearBitnum

SpecBits == InitBits /\ [][NextBits]_vars

\* C1: for every non-negative linear bit index n, linear_to_saw_tooth_bitnum(n)
\* is 8*(n div 8) + (7 - n mod 8); it stays in the byte of n, applying it to
\* its own result gives n back, and 0->7, 1->6, 7->0, 8->15, 15->8, 32->39,
\* 64->71, 65->70.
C1_SawToothFormula ==
    (pc = "returned" /\ call.fn = "linear_to_saw_tooth_bitnum") =>
        LET n == call.linear_first_bit
            r == ret.value
        IN /\ ret.outcome = "return"
           /\ r = 8 * (n \div 8) + (7 - (n % 8))
           /\ n \div 8 = r \div 8
           /\ linear_to_saw_tooth_bitnum(r) = n
           /\ (n = 0 => r = 7)
           /\ (n = 1 => r = 6)
           /\ (n = 7 => r = 0)
           /\ (n = 8 => r = 15)
           /\ (n = 15 => r = 8)
           /\ (n = 32 => r = 39)
           /\ (n = 64 => r = 71)
           /\ (n = 65 => r = 70)

\* C1's case: the call on bit 65, in the ninth byte, has returned.
C1_Witness ==
    /\ pc = "returned"
    /\ call.fn = "linear_to_saw_tooth_bitnum"
    /\ call.linear_first_bit = 65
    /\ ret = Returned(70)

\* C2: for linear_start >= 0 and width >= 1, cdd_to_dbc_start_bit returns the
\* saw-tooth number of linear_start for a big-endian field, whatever the
\* width, and of linear_start + width - 1 for a little-endian field; e.g.
\* (big,0,16)->7, (little,0,16)->8, (little,0,4)->4, (little,4,4)->0,
\* (big,32,16)->39, (little,32,16)->40.
C2_StartBitConvention ==
    (pc = "returned" /\ call.fn = "cdd_to_dbc_start_bit"
        /\ call.byte_order \in {"big_endian", "little_endian"}) =>
        LET bo == call.byte_order
            n == call.linear_first_bit
            w == call.bit_len
            r == ret.value
            case(o, s, l, v) == (bo = o /\ n = s /\ w = l) => r = v
        IN /\ ret.outcome = "return"
           /\ bo = "big_endian" =>
                 r = 8 * (n \div 8) + (7 - (n % 8))
           /\ bo = "little_endian" =>
                 r = 8 * ((n + w - 1) \div 8) + (7 - ((n + w - 1) % 8))
           /\ case("big_endian", 0, 16, 7)
           /\ case("little_endian", 0, 16, 8)
           /\ case("little_endian", 0, 4, 4)
           /\ case("little_endian", 4, 4, 0)
           /\ case("big_endian", 32, 16, 39)
           /\ case("little_endian", 32, 16, 40)

\* C2's case: a little-endian field two bytes wide, starting at linear bit 32.
C2_Witness ==
    /\ pc = "returned"
    /\ call.fn = "cdd_to_dbc_start_bit"
    /\ call.byte_order = "little_endian"
    /\ call.linear_first_bit = 32
    /\ call.bit_len = 16
    /\ ret = Returned(40)

\* C7: for every byte-order tag other than 'big_endian' and 'little_endian',
\* and every linear_start and width, both cdd_to_dbc_start_bit and
\* saw_tooth_start_from_linear_bitnum end in the library's Error and return no
\* position.
C7_UnknownByteOrderIsError ==
    (pc = "returned"
        /\ call.fn \in {"cdd_to_dbc_start_bit",
                        "saw_tooth_start_from_linear_bitnum"}
        /\ call.byte_order \notin {"big_endian", "little_endian"}) =>
        ret = Raised("Error")

----------------------------------------------------------------------------
(* Data objects and frames.                                                *)

\* Field names, unique within a frame: the i-th declared field is FieldNames[i].
FieldNames == <<"f1", "f2", "f3", "f4", "f5">>

\* Absent choices (None): no raw value has a symbolic name.
NoChoices == [k \in {} |-> ""]

\* Data(name=..., start=..., length=..., byte_order=..., scale=..., offset=...,
\* choices=...): the constructor leaves is_signed and is_float False.
Data(name, start, length, byte_order, scale, off, choices) ==
    [name |-> name, start |-> start, length |-> length,
     byte_order |-> byte_order, is_signed |-> FALSE, is_float |-> FALSE,
     scale |-> scale, offset |-> off, choices |-> choices]

start_bit(d) ==
    IF d.byte_order = "big_endian"
    THEN 8 * (d.start \div 8) + (7 - (d.start % 8))
    ELSE d.start

\* The bits of the natural frame buffer a field owns, each named by its
\* saw-tooth number 8*byte + significance.  A big-endian field runs from its
\* MSBit start_bit(d) through d.length MSB-first positions; a little-endian
\* field runs from its LSBit d.start upwards.
FieldBits(d) ==
    IF d.byte_order = "big_endian"
    THEN {8 * (q \div 8) + (7 - (q % 8)) :
             q \in start_bit(d)..(start_bit(d) + d.length - 1)}
    ELSE d.start..(d.start + d.length - 1)

\* The Frame invariant: every field inside the frame, no two fields overlap.
FrameInvariant(ds, nbytes) ==
    /\ \A i \in 1..Len(ds) : FieldBits(ds[i]) \subseteq 0..(8 * nbytes - 1)
    /\ \A i, j \in 1..Len(ds) :
           i < j => FieldBits(ds[i]) \cap FieldBits(ds[j]) = {}

----------------------------------------------------------------------------
(* SpecLoad: _load_did_element over a DID of up to MaxDataObjs data        *)
(* objects, each referring to a data type of the ECU document.             *)

\* The data types _load_data_types can return: the byte order code was '21'
\* or '12' (any other code raised Error before a type was made), and neither
\* a COMP nor a TEXTMAP element was present.
DataTypes ==
    [bit_length : 1..MaxTypeBits,
     byte_order : {"big_endian", "little_endian"},
     factor : {1}, offset : {0}]

_load_data_element(name, off, data_type) ==
    LET start_bit_index ==
            saw_tooth_start_from_linear_bitnum(data_type.byte_order, off,
                                               data_type.bit_length).value
    IN Data(name, start_bit_index, data_type.bit_length, data_type.byte_order,
            data_type.factor, data_type.offset, NoChoices)

InitLoad ==
    /\ pc = "loading"
    /\ call = NoCall
    /\ ret = NoReturn
    /\ offset = 0
    /\ datas = <<>>
    /\ number_of_bytes = 0
    /\ loop = NoLoop
    /\ big = NoProgram
    /\ little = NoProgram
    /\ formats = NoFormats
    /\ data = NoDict
    /\ packed_union = {}
    /\ decoded = NoDecoded

\* One iteration of `for data_obj in data_objs`.
LoadDataObj ==
    /\ pc = "loading"
    /\ Len(datas) < MaxDataObjs
    /\ \E data_type \in DataTypes :
         LET d == _load_data_element(FieldNames[Len(datas) + 1], offset,
                                     data_type)
         IN /\ datas' = Append(datas, d)
            /\ offset' = offset + d.length
    /\ UNCHANGED <<pc, call, ret, number_of_bytes, loop, big, little, formats,
                   data, packed_union, decoded>>

\* The end of the loop: the Did is made with length = (offset + 7) // 8.
LoadDidDone ==
    /\ pc = "loading"
    /\ number_of_bytes' = (offset + 7) \div 8
    /\ pc' = "loaded"
    /\ UNCHANGED <<call, ret, offset, datas, loop, big, little, formats, data,
                   packed_union, decoded>>

NextLoad ==
    \/ LoadDataObj
    \/ LoadDidDone

SpecLoad == InitLoad /\ [][NextLoad]_vars

\* C5: every frame the loader produces satisfies the Frame invariant: each
\* field's bit range (little-endian [start, start+width), big-endian
\* [p, p+width) with p = 8*(start div 8) + 7 - start mod 8) lies within
\* [0, 8*byte_length) and no two fields' ranges overlap, for every byte order
\* and width.
C5_LoadedFrameInvariant ==
    pc = "loaded" => FrameInvariant(datas, number_of_bytes)

----------------------------------------------------------------------------
(* Bit strings and integers.                                               *)

Ones(n) == [i \in 1..n |-> 1]

Zeros(n) == [i \in 1..n |-> 0]

RECURSIVE Pow2(_)
Pow2(n) == IF n <= 0 THEN 1 ELSE 2 * Pow2(n - 1)

\* A non-negative Python integer of any size is the set of the weights of its
\* one bits: 0 is {}, 5 is {0, 2}.  & is intersection and | is union.
\* int(s, 2) of a bit string, and int(binascii.hexlify(b), 16) of bytes: the
\* most significant bit comes first, so the i-th of n bits weighs n - i.
BitsToInt(bits) == {Len(bits) - i : i \in {j \in 1..Len(bits) : bits[j] = 1}}

\* The n low-order bits of such an integer, most significant first.
IntToBits(v, n) == [i \in 1..n |-> IF (n - i) \in v THEN 1 ELSE 0]

BitAnd(a, b) == a \cap b

BitOr(a, b) == a \cup b

\* The n low-order bits of a field's raw value v >= 0, most significant first.
ValueBits(v, n) == [i \in 1..n |-> (v \div Pow2(n - i)) % 2]

\* The value of a field's bits, read as an unsigned number.
RECURSIVE BitsValue(_)
BitsValue(bits) ==
    IF bits = <<>> THEN 0
    ELSE 2 * BitsValue(SubSeq(bits, 1, Len(bits) - 1)) + bits[Len(bits)]

\* b[::-1] of a byte string, given as its bits.
ReverseBytes(bits) ==
    LET n == Len(bits) \div 8
    IN [i \in 1..Len(bits) |->
           bits[8 * (n - 1 - ((i - 1) \div 8)) + ((i - 1) % 8) + 1]]

\* bitstruct pads what it packs with zero bits up to a whole byte.
PadToByte(bits) == bits \o Zeros((8 - (Len(bits) % 8)) % 8)

RECURSIVE Concat(_)
Concat(seqs) ==
    IF seqs = <<>> THEN <<>>
    ELSE Concat(SubSeq(seqs, 1, Len(seqs) - 1)) \o seqs[Len(seqs)]

RECURSIVE SumLengths(_)
SumLengths(fmt) ==
    IF fmt = <<>> THEN 0
    ELSE SumLengths(SubSeq(fmt, 1, Len(fmt) - 1)) + fmt[Len(fmt)][2]

----------------------------------------------------------------------------
(* create_encode_decode_formats.                                           *)

\* The name of a padding item.
None == ""

get_format_string_type(d) ==
    IF d.is_float THEN "f"
    ELSE IF d.is_signed THEN "s"
    ELSE "u"

\* A mutation of padding_item: the mask of a padding is made of '0's, the mask
\* of a data item.
padding_item_data_mask(length) ==
    [fmt |-> <<"p", length>>, padding_mask |-> Zeros(length), name |-> None]

\* An item is the tuple (fmt, padding_mask, name); fmt 'p8' is <<"p", 8>>.
padding_item(length) ==
    [fmt |-> <<"p", length>>, padding_mask |-> Ones(length), name |-> None]

data_item(d) ==
    [fmt |-> <<get_format_string_type(d), d.length>>,
     padding_mask |-> Zeros(d.length), name |-> d.name]

\* ''.join of the items' formats: the sequence of their <<type, length>>.
fmt(items) == [i \in 1..Len(items) |-> items[i].fmt]

names(items) ==
    LET named == SelectSeq(items, LAMBDA it : it.name # None)
    IN [i \in 1..Len(named) |-> named[i].name]

\* ''.join of the items' padding masks.
MaskString(items) == Concat([i \in 1..Len(items) |-> items[i].padding_mask])

\* int('', 2) raises ValueError, which gives 0.
padding_mask(items) ==
    IF MaskString(items) = <<>> THEN {} ELSE BitsToInt(MaskString(items))

\* One iteration of create_big's loop over datas, from the locals lp.
create_big_iteration(lp, d) ==
    IF d.byte_order = "little_endian"
    THEN [lp EXCEPT !.i = lp.i + 1]
    ELSE LET padding_length == start_bit(d) - lp.cursor
             padded == IF padding_length > 0
                       THEN Append(lp.items, padding_item(padding_length))
                       ELSE lp.items
         IN [i |-> lp.i + 1,
             cursor |-> start_bit(d) + d.length,
             items |-> Append(padded, data_item(d))]

\* A mutation of create_big_tail: the trailing padding is never appended.
create_big_tail_no_padding(lp, format_length) ==
    lp.items

\* The items create_big returns: a trailing padding fills the frame.
create_big_tail(lp, format_length) ==
    IF lp.cursor < format_length
    THEN Append(lp.items, padding_item(format_length - lp.cursor))
    ELSE lp.items

\* One iteration of create_little's loop over datas[::-1].
create_little_iteration(lp, d) ==
    IF d.byte_order = "big_endian"
    THEN [lp EXCEPT !.i = lp.i - 1]
    ELSE LET padding_length == lp.cursor - (d.start + d.length)
             padded == IF padding_length > 0
                       THEN Append(lp.items, padding_item(padding_length))
                       ELSE lp.items
         IN [i |-> lp.i - 1,
             cursor |-> d.start,
             items |-> Append(padded, data_item(d))]

create_little_tail(lp) ==
    IF lp.cursor > 0
    THEN Append(lp.items, padding_item(lp.cursor))
    ELSE lp.items

\* bitstruct.pack('u<length>', value): the value in length bits, padded to a
\* whole byte.
PackUnsigned(length, value) == PadToByte(IntToBits(value, length))

\* create_little's padding mask: packed, byte-reversed, read as an integer.
little_padding_mask(items, format_length) ==
    LET value == padding_mask(items)
    IN IF format_length > 0
       THEN LET length == Len(MaskString(items))
            IN BitsToInt(ReverseBytes(PackUnsigned(length, value)))
       ELSE value

\* bitstruct.compile(fmt, names): the parsed format and the names it binds.
Compile(f, ns) == [fmt |-> f, names |-> ns]

----------------------------------------------------------------------------
(* The frames a caller hands to create_encode_decode_formats: a Did of     *)
(* up to MaxBytes bytes with up to MaxFields Data objects, in any          *)
(* declaration order, each inside the frame and no two overlapping.        *)

\* A field of len bits whose range begins at grid position g: a big-endian
\* field has its MSBit at MSB-first position g, named in saw-tooth numbering
\* as the code expects; any other field has its LSBit at bit g.
FieldAt(name, byte_order, g, len) ==
    Data(name,
         IF byte_order = "big_endian" THEN 8 * (g \div 8) + (7 - (g % 8)) ELSE g,
         len, byte_order, 1, 0, NoChoices)

Places(orders, W) ==
    {pl \in orders \X (0..(W - 1)) \X (1..W) :
        /\ pl[2] % BitGrain = 0
        /\ pl[3] % BitGrain = 0
        /\ pl[2] + pl[3] <= W}

RECURSIVE FramesOf(_, _, _)
FramesOf(orders, W, k) ==
    IF k = 0 THEN {<<>>}
    ELSE {Append(ds, FieldAt(FieldNames[k], pl[1], pl[2], pl[3])) :
             <<ds, pl>> \in
                 {x \in FramesOf(orders, W, k - 1) \X Places(orders, W) :
                     \A i \in 1..(k - 1) :
                         FieldBits(x[1][i])
                             \cap FieldBits(FieldAt("", x[2][1], x[2][2], x[2][3]))
                           = {}}}

Recognised(d) == d.byte_order \in {"big_endian", "little_endian"}

----------------------------------------------------------------------------
(* SpecFormats: create_encode_decode_formats(datas, number_of_bytes), one  *)
(* loop iteration per step.                                                *)

format_length == 8 * number_of_bytes

InitFormats ==
    /\ pc = "create_big"
    /\ call = NoCall
    /\ ret = NoReturn
    /\ offset = 0
    /\ number_of_bytes \in 0..MaxBytes
    /\ \E k \in 0..MaxFields : datas \in FramesOf(ByteOrderTags, 8 * number_of_bytes, k)
    /\ loop = [i |-> 1, cursor |-> 0, items |-> <<>>]
    /\ big = NoProgram
    /\ little = NoProgram
    /\ formats = NoFormats
    /\ data = NoDict
    /\ packed_union = {}
    /\ decoded = NoDecoded

\* create_big: `for data in datas`.
CreateBigStep ==
    /\ pc = "create_big"
    /\ loop.i <= Len(datas)
    /\ loop' = create_big_iteration(loop, datas[loop.i])
    /\ UNCHANGED <<pc, call, ret, offset, datas, number_of_bytes, big, little,
                   formats, data, packed_union, decoded>>

\* create_big returns; create_little starts with end = format_length.
CreateBigReturn ==
    /\ pc = "create_big"
    /\ loop.i > Len(datas)
    /\ LET items == create_big_tail(loop, format_length)
       IN big' = [fmt |-> fmt(items), padding_mask |-> padding_mask(items),
                  names |-> names(items)]
    /\ loop' = [i |-> Len(datas), cursor |-> format_length, items |-> <<>>]
    /\ pc' = "create_little"
    /\ UNCHANGED <<call, ret, offset, datas, number_of_bytes, little, formats,
                   data, packed_union, decoded>>

\* create_little: `for data in datas[::-1]`.
CreateLittleStep ==
    /\ pc = "create_little"
    /\ loop.i >= 1
    /\ loop' = create_little_iteration(loop, datas[loop.i])
    /\ UNCHANGED <<pc, call, ret, offset, datas, number_of_bytes, big, little,
                   formats, data, packed_union, decoded>>

CreateLittleReturn ==
    /\ pc = "create_little"
    /\ loop.i < 1
    /\ LET items == create_little_tail(loop)
       IN little' = [fmt |-> fmt(items),
                     padding_mask |-> little_padding_mask(items, format_length),
                     names |-> names(items)]
    /\ pc' = "compile"
    /\ UNCHANGED <<call, ret, offset, datas, number_of_bytes, loop, big,
                   formats, data, packed_union, decoded>>

\* Both programs are compiled and the Formats tuple is returned.
CompileFormats ==
    /\ pc = "compile"
    /\ formats' = [big_endian |-> Compile(big.fmt, big.names),
                   little_endian |-> Compile(little.fmt, little.names),
                   padding_mask |-> BitAnd(big.padding_mask,
                                           little.padding_mask)]
    /\ pc' = "compiled"
    /\ UNCHANGED <<call, ret, offset, datas, number_of_bytes, loop, big, little,
                   data, packed_union, decoded>>

NextFormats ==
    \/ CreateBigStep
    \/ CreateBigReturn
    \/ CreateLittleStep
    \/ CreateLittleReturn
    \/ CompileFormats

SpecFormats == InitFormats /\ [][NextFormats]_vars

----------------------------------------------------------------------------
(* _encode_field and _decode_field.                                        *)

\* A value handed to encode_data or returned by decode_data: a number or a
\* string (isinstance(value, str)).
Num(n) == [kind |-> "num", s |-> "", n |-> n]

Str(s) == [kind |-> "str", s |-> s, n |-> 0]

Abs(x) == IF x < 0 THEN -x ELSE x

\* A mutation of to_integral: ties are rounded away from zero (ROUND_HALF_UP).
to_integral_half_up(num, den) ==
    LET q == Abs(num) \div Abs(den)
        r == Abs(num) % Abs(den)
        mag == IF 2 * r >= Abs(den) THEN q + 1 ELSE q
    IN IF (num < 0) # (den < 0) THEN -mag ELSE mag

\* int((Decimal(num) / Decimal(den)).to_integral()): the quotient rounded to
\* an integer under the default context, whose rounding is ROUND_HALF_EVEN.
to_integral(num, den) ==
    LET q == Abs(num) \div Abs(den)
        r == Abs(num) % Abs(den)
        mag == IF 2 * r > Abs(den) THEN q + 1
               ELSE IF 2 * r = Abs(den) THEN (IF q % 2 = 0 THEN q ELSE q + 1)
               ELSE q
    IN IF (num < 0) # (den < 0) THEN -mag ELSE mag

\* field.choice_string_to_number(string): the raw key whose name is string;
\* UnknownChoice when the choices hold no such name.
choice_string_to_number(field, string) ==
    IF \E k \in DOMAIN field.choices : field.choices[k] = string
    THEN Returned(CHOOSE k \in DOMAIN field.choices : field.choices[k] = string)
    ELSE Raised("UnknownChoice")

\* For a float field the quotient (value - offset) / scale is returned
\* unrounded: the pair <<numerator, denominator>>.
_encode_field(field, dict, scaling) ==
    LET value == dict[field.name]
    IN IF value.kind = "str"
       THEN choice_string_to_number(field, value.s)
       ELSE IF scaling
       THEN IF field.is_float
            THEN Returned(<<value.n - field.offset, field.scale>>)
            ELSE Returned(to_integral(value.n - field.offset, field.scale))
       ELSE Returned(value.n)

\* field.choices[value] raises KeyError (TypeError for None) when the raw
\* value has no name; both are passed over.
_decode_field(field, value, decode_choices, scaling) ==
    IF decode_choices /\ value \in DOMAIN field.choices
    THEN Str(field.choices[value])
    ELSE IF scaling
    THEN Num(field.scale * value + field.offset)
    ELSE Num(value)

----------------------------------------------------------------------------
(* bitstruct's compiled formats.                                           *)

\* The bits of the items of a format, in order; the data items take their
\* values by name, in the order of ns.  A value is packed in two's
\* complement, in the item's width.
RECURSIVE PackItems(_, _, _)
PackItems(f, ns, unpacked) ==
    IF f = <<>> THEN <<>>
    ELSE IF Head(f)[1] = "p"
    THEN Zeros(Head(f)[2]) \o PackItems(Tail(f), ns, unpacked)
    ELSE ValueBits(unpacked[Head(ns)] % Pow2(Head(f)[2]), Head(f)[2])
         \o PackItems(Tail(f), Tail(ns), unpacked)

\* compiled.pack(unpacked): whole bytes.
Pack(compiled, unpacked) ==
    PadToByte(PackItems(compiled.fmt, compiled.names, unpacked))

\* The positions in a format of its data items.
DataItems(f) == SelectSeq([i \in 1..Len(f) |-> i], LAMBDA i : f[i][1] # "p")

\* compiled.unpack(bytes): bitstruct raises Error when the bytes hold fewer
\* bits than the format; otherwise each name gets the value of its item.
Unpack(compiled, bits) ==
    IF Len(bits) < SumLengths(compiled.fmt)
    THEN [outcome |-> "bitstruct.Error", values |-> NoDict]
    ELSE [outcome |-> "return",
          values |->
            [n \in {compiled.names[k] : k \in 1..Len(compiled.names)} |->
               LET k == CHOOSE k \in 1..Len(compiled.names) :
                            /\ compiled.names[k] = n
                            /\ \A m \in (k + 1)..Len(compiled.names) :
                                   compiled.names[m] # n
                   j == DataItems(compiled.fmt)[k]
                   off == SumLengths(SubSeq(compiled.fmt, 1, j - 1))
                   len == compiled.fmt[j][2]
                   raw == BitsValue(SubSeq(bits, off + 1, off + len))
               IN IF compiled.fmt[j][1] = "s" /\ raw >= Pow2(len - 1)
                  THEN raw - Pow2(len)
                  ELSE raw]]

----------------------------------------------------------------------------
(* encode_data and decode_data.                                            *)

encode_data(dict, fields, fmts, scaling) ==
    IF Len(fields) = 0 THEN Returned({})
    ELSE IF \E i \in 1..Len(fields) :
                _encode_field(fields[i], dict, scaling).outcome # "return"
    THEN LET i == CHOOSE i \in 1..Len(fields) :
                      _encode_field(fields[i], dict, scaling).outcome # "return"
         IN _encode_field(fields[i], dict, scaling)
    ELSE LET unpacked ==
                 [n \in {fields[i].name : i \in 1..Len(fields)} |->
                    LET i == CHOOSE i \in 1..Len(fields) : fields[i].name = n
                    IN _encode_field(fields[i], dict, scaling).value]
             big_packed == Pack(fmts.big_endian, unpacked)
             little_packed == ReverseBytes(Pack(fmts.little_endian, unpacked))
         IN Returned(BitOr(BitsToInt(big_packed), BitsToInt(little_packed)))

\* The byte buffer of byte_length bytes that Did.encode makes of encode_data's
\* integer: its 8 * byte_length low-order bits.
FrameBuffer(packed, nbytes) == IntToBits(packed, 8 * nbytes)

decode_data(bytes, fields, fmts, decode_choices, scaling) ==
    LET b == Unpack(fmts.big_endian, bytes)
        l == Unpack(fmts.little_endian, ReverseBytes(bytes))
        unpacked == [n \in DOMAIN b.values \cup DOMAIN l.values |->
                        IF n \in DOMAIN l.values THEN l.values[n]
                        ELSE b.values[n]]
    IN IF b.outcome # "return" THEN [outcome |-> b.outcome, values |-> NoDict]
       ELSE IF l.outcome # "return"
       THEN [outcome |-> l.outcome, values |-> NoDict]
       ELSE IF \E i \in 1..Len(fields) : fields[i].name \notin DOMAIN unpacked
       THEN [outcome |-> "KeyError", values |-> NoDict]
       ELSE [outcome |-> "return",
             values |->
               [n \in {fields[i].name : i \in 1..Len(fields)} |->
                  LET i == CHOOSE i \in 1..Len(fields) : fields[i].name = n
                  IN _decode_field(fields[i], unpacked[n], decode_choices,
                                   scaling)]]

----------------------------------------------------------------------------
(* SpecCodec: a frame is compiled, a dictionary of values is encoded and   *)
(* the resulting frame buffer is decoded.                                  *)

OnOff == [k \in {0, 1} |-> IF k = 0 THEN "off" ELSE "on"]

\* The numeric attributes of a field: the constructor's defaults, or a signed
\* field with a scale, an offset and two named raw values.
FieldKinds ==
    {[is_signed |-> FALSE, scale |-> 1, offset |-> 0, choices |-> NoChoices],
     [is_signed |-> TRUE, scale |-> 2, offset |-> -3, choices |-> OnOff]}

WithKind(d, kind) ==
    [d EXCEPT !.is_signed = kind.is_signed, !.scale = kind.scale,
              !.offset = kind.offset, !.choices = kind.choices]

CodecFrames(W, k) ==
    {[i \in 1..k |-> WithKind(ds[i], kinds[i])] :
        <<ds, kinds>> \in FramesOf({"big_endian", "little_endian"}, W, k)
                          \X [1..k -> FieldKinds]}

\* The raw values a field of this width and sign can hold: the ends of its
\* range and 1.
RawSamples(d) ==
    IF d.is_signed
    THEN {-Pow2(d.length - 1), 1 % Pow2(d.length - 1), Pow2(d.length - 1) - 1}
    ELSE {0, 1, Pow2(d.length) - 1}

\* The values a caller gives for a field: the physical value of an in-range
\* raw value (the raw value itself when scaling is off), or a name of its
\* choices.
SampleValues(d, scaling) ==
    {Num(IF scaling THEN d.scale * raw + d.offset ELSE raw) :
        raw \in RawSamples(d)}
    \cup {Str(d.choices[k]) : k \in DOMAIN d.choices}

AllSampleValues(ds, scaling) ==
    UNION {SampleValues(ds[i], scaling) : i \in 1..Len(ds)}

InitCodec ==
    /\ pc = "create_big"
    /\ call = [fn |-> "create_encode_decode_formats", scaling |-> FALSE,
               decode_choices |-> FALSE, decode_scaling |-> FALSE]
    /\ ret = NoReturn
    /\ offset = 0
    /\ number_of_bytes \in 0..MaxBytes
    /\ \E k \in 0..MaxCodecFields : datas \in CodecFrames(8 * number_of_bytes, k)
    /\ loop = [i |-> 1, cursor |-> 0, items |-> <<>>]
    /\ big = NoProgram
    /\ little = NoProgram
    /\ formats = NoFormats
    /\ data = NoDict
    /\ packed_union = {}
    /\ decoded = NoDecoded

\* encode_data(data, datas, formats, scaling) on values chosen by the caller.
EncodeData ==
    /\ pc = "compiled"
    /\ \E scaling \in BOOLEAN :
         /\ data' \in {dict \in [{datas[i].name : i \in 1..Len(datas)}
                                   -> AllSampleValues(datas, scaling)] :
                          \A i \in 1..Len(datas) :
                              dict[datas[i].name]
                                  \in SampleValues(datas[i], scaling)}
         /\ call' = [call EXCEPT !.fn = "encode_data", !.scaling = scaling]
         /\ ret' = encode_data(data', datas, formats, scaling)
    /\ packed_union' = IF ret'.outcome = "return" THEN ret'.value ELSE {}
    /\ pc' = "encoded"
    /\ UNCHANGED <<offset, datas, number_of_bytes, loop, big, little, formats,
                   decoded>>

\* decode_data on the frame buffer of the encoded integer.
DecodeData ==
    /\ pc = "encoded"
    /\ ret.outcome = "return"
    /\ \E decode_choices \in BOOLEAN, scaling \in BOOLEAN :
         /\ call' = [call EXCEPT !.fn = "decode_data",
                                 !.decode_choices = decode_choices,
                                 !.decode_scaling = scaling]
         /\ decoded' = decode_data(FrameBuffer(packed_union, number_of_bytes),
                                   datas, formats, decode_choices, scaling)
    /\ pc' = "decoded"
    /\ UNCHANGED <<ret, offset, datas, number_of_bytes, loop, big, little,
                   formats, data, packed_union>>

NextCodec ==
    \/ CreateBigStep
    \/ CreateBigReturn
    \/ CreateLittleStep
    \/ CreateLittleReturn
    \/ CompileFormats
    \/ EncodeData
    \/ DecodeData

SpecCodec == InitCodec /\ [][NextCodec]_vars

----------------------------------------------------------------------------
(* Properties of the compiled layout.                                      *)

\* A frame of big-endian and little-endian fields only.
AllRecognised(ds) == \A i \in 1..Len(ds) : Recognised(ds[i])

\* The fields are declared in increasing position order: within each program
\* a later field begins after an earlier one (a big-endian field's position
\* is its MSB-first position start_bit, a little-endian field's its start).
DeclaredInOrder(ds) ==
    \A i, j \in 1..Len(ds) :
        (i < j /\ ds[i].byte_order = ds[j].byte_order) =>
            start_bit(ds[i]) < start_bit(ds[j])

\* The bits a program's padding mask marks as real data: the bits of the
\* mask that are 0.  A bit is named by its weight in the frame read as one
\* big unsigned integer, the form in which encode_data merges both programs
\* and in which the masks are returned: bit k of a frame of N bytes is bit
\* k mod 8 of byte N - 1 - k div 8.  The big mask has one bit per bit of its
\* items; the little mask was packed into whole bytes.
BigDataBits ==
    {k \in 0..(SumLengths(big.fmt) - 1) : k \notin big.padding_mask}

LittleDataBits ==
    LET n == SumLengths(little.fmt)
        packed_bits == IF format_length > 0 THEN 8 * ((n + 7) \div 8) ELSE n
    IN {k \in 0..(packed_bits - 1) : k \notin little.padding_mask}

\* C4: for a valid frame (fields inside the frame, pairwise non-overlapping),
\* the bits marked as real data in the big program and those marked in the
\* little program (after its byte reversal) are disjoint, and each of the
\* 8*number_of_bytes bits is in exactly one of: big data, little data, the
\* returned padding mask.
C4_DisjointCover ==
    (pc = "compiled" /\ AllRecognised(datas)
        /\ FrameInvariant(datas, number_of_bytes)) =>
        /\ BigDataBits \cap LittleDataBits = {}
        /\ \A k \in 0..(format_length - 1) :
              /\ k \in BigDataBits \cup LittleDataBits \cup formats.padding_mask
              /\ ~(k \in BigDataBits /\ k \in LittleDataBits)
              /\ ~(k \in BigDataBits /\ k \in formats.padding_mask)
              /\ ~(k \in LittleDataBits /\ k \in formats.padding_mask)

\* C6: a field whose byte order is neither 'big_endian' nor 'little_endian'
\* makes compilation fail: no layout is produced, and the field is not placed
\* as a data item in the big program, the little program, or both.
C6_UnknownByteOrderRejected ==
    \A i \in 1..Len(datas) :
        ~Recognised(datas[i]) =>
            /\ pc # "compiled"
            /\ \A k \in 1..Len(big.names) : big.names[k] # datas[i].name
            /\ \A k \in 1..Len(little.names) : little.names[k] # datas[i].name

\* What C9 says of a state, for a frame of in-order fields.
SpanState ==
    LET W == format_length
    IN /\ pc = "create_big" => loop.cursor <= W
       /\ pc = "create_little" => loop.cursor >= 0
       /\ pc \in {"create_little", "compile", "compiled"} =>
              SumLengths(big.fmt) = W
       /\ pc \in {"compile", "compiled"} => SumLengths(little.fmt) = W

\* What C9 says of a step: the big cursor never decreases, the little cursor
\* never increases.
SpanStep ==
    /\ (pc = "create_big" /\ pc' = "create_big") => loop'.cursor >= loop.cursor
    /\ (pc = "create_little" /\ pc' = "create_little") =>
           loop'.cursor <= loop.cursor

SpanFrame ==
    /\ AllRecognised(datas)
    /\ FrameInvariant(datas, number_of_bytes)
    /\ DeclaredInOrder(datas)

\* C9: for a frame whose fields lie inside [0, W), W = 8*number_of_bytes, do
\* not overlap and are declared in increasing position order, the item widths
\* of the big program sum to W and so do those of the little program; while
\* they are built the big cursor never decreases and ends <= W, the little
\* cursor never increases and ends >= 0.
C9_ProgramsSpanFrame ==
    /\ [](SpanFrame => SpanState)
    /\ [][SpanFrame => SpanStep]_vars

\* C9's case: a compiled three-field frame of both byte orders, in order, whose
\* big program has a gap before a field and a trailing padding.
C9_Witness ==
    /\ pc = "compiled"
    /\ SpanFrame
    /\ Len(datas) = 3
    /\ Len(big.names) >= 1
    /\ Len(little.names) >= 1
    /\ Len(big.fmt) >= 3
    /\ Len(little.fmt) >= 2

----------------------------------------------------------------------------
(* Properties of the codec.                                                *)

\* C3: for a well-formed frame (every field inside the frame, fields pairwise
\* non-overlapping, byte orders possibly mixed) and in-range values,
\* decode_data(encode_data(values, scaling=true), decode_choices=false,
\* scaling=true) returns each field's value, and a field encoded from a
\* choice name decodes to that name when decode_choices=true.
C3_RoundTrip ==
    (pc = "decoded" /\ call.scaling /\ call.decode_scaling
        /\ AllRecognised(datas) /\ FrameInvariant(datas, number_of_bytes)) =>
        /\ decoded.outcome = "return"
        /\ \A i \in 1..Len(datas) :
              LET n == datas[i].name
              IN /\ (~call.decode_choices /\ data[n].kind = "num") =>
                        decoded.values[n] = data[n]
                 /\ (call.decode_choices /\ data[n].kind = "str") =>
                        decoded.values[n] = data[n]

\* The programs and the mask of a frame without fields.
AllPadding(program) ==
    /\ program.fmt = IF format_length > 0 THEN << <<"p", format_length>> >>
                     ELSE <<>>
    /\ program.names = <<>>

\* C8: for a frame with 0 fields and any byte length >= 0, the big program
\* and the little program consist only of padding (one item of width
\* 8*number_of_bytes when that is > 0, none when it is 0), the padding mask
\* has all 8*number_of_bytes bits set, and encode_data yields 0.
C8_EmptyFrame ==
    Len(datas) = 0 =>
        /\ pc \in {"create_little", "compile", "compiled", "encoded", "decoded"}
              => AllPadding(big)
        /\ pc \in {"compile", "compiled", "encoded", "decoded"}
              => AllPadding(little)
        /\ pc \in {"compiled", "encoded", "decoded"} =>
              /\ formats.big_endian = Compile(big.fmt, big.names)
              /\ formats.little_endian = Compile(little.fmt, little.names)
              /\ formats.padding_mask = 0..(format_length - 1)
        /\ pc \in {"encoded", "decoded"} =>
              /\ ret = Returned({})
              /\ packed_union = {}

\* C8's case: a two-byte frame without fields has been encoded.
C8_Witness ==
    /\ pc = "encoded"
    /\ Len(datas) = 0
    /\ number_of_bytes = 2
    /\ formats.padding_mask = 0..15
    /\ packed_union = {}

----------------------------------------------------------------------------
(* SpecField: one call of _encode_field per behaviour.                     *)

EncodedFields ==
    {[Data("f1", 7, 8, "big_endian", scale, off, choices)
         EXCEPT !.is_float = is_float] :
        <<scale, off, choices, is_float>> \in
            ((-MaxScale..MaxScale) \ {0}) \X (-MaxOffset..MaxOffset)
                \X {NoChoices, OnOff} \X BOOLEAN}

EncodedValues ==
    {Num(v) : v \in -MaxValue..MaxValue} \cup {Str(n) : n \in {"off", "on", "auto"}}

InitField ==
    /\ pc = "called"
    /\ call \in [fn : {"_encode_field"}, field : EncodedFields,
                 value : EncodedValues, scaling : BOOLEAN]
    /\ ret = NoReturn
    /\ offset = 0
    /\ datas = <<>>
    /\ number_of_bytes = 0
    /\ loop = NoLoop
    /\ big = NoProgram
    /\ little = NoProgram
    /\ formats = NoFormats
    /\ data = NoDict
    /\ packed_union = {}
    /\ decoded = NoDecoded

EncodeField ==
    /\ pc = "called"
    /\ call.fn = "_encode_field"
    /\ data' = [n \in {call.field.name} |-> call.value]
    /\ ret' = _encode_field(call.field, data', call.scaling)
    /\ pc' = "returned"
    /\ UNCHANGED <<call, offset, datas, number_of_bytes, loop, big, little,
                   formats, packed_union, decoded>>

NextField == EncodeField

SpecField == InitField /\ [][NextField]_vars

\* C10: with scaling and a numeric value, _encode_field of a non-float field
\* returns (value - offset) / scale rounded to the nearest integer, ties going
\* to the even integer (0.5 -> 0, 1.5 -> 2, 2.5 -> 2, -0.5 -> 0); without
\* scaling the value is returned unchanged; a string value is resolved
\* through the field's choices whatever the scaling flag.
C10_EncodeFieldRounding ==
    (pc = "returned" /\ call.fn = "_encode_field") =>
        LET f == call.field
            v == call.value
            n == v.n - f.offset
            s == f.scale
            r == ret.value
            case(num, den, q) == (n = num /\ s = den) => r = q
        IN /\ (v.kind = "num" /\ call.scaling /\ ~f.is_float) =>
                 /\ ret.outcome = "return"
                 /\ 2 * Abs(r * s - n) <= Abs(s)
                 /\ 2 * Abs(r * s - n) = Abs(s) => r % 2 = 0
                 /\ case(1, 2, 0)
                 /\ case(3, 2, 2)
                 /\ case(5, 2, 2)
                 /\ case(-1, 2, 0)
           /\ (v.kind = "num" /\ ~call.scaling) => ret = Returned(v.n)
           /\ (v.kind = "str"
                   /\ \E k \in DOMAIN f.choices : f.choices[k] = v.s) =>
                 /\ ret.outcome = "return"
                 /\ r \in DOMAIN f.choices
                 /\ f.choices[r] = v.s

\* C10's case: the quotient 2.5, a tie, was rounded to the even integer 2.
C10_Witness ==
    /\ pc = "returned"
    /\ call.fn = "_encode_field"
    /\ call.value = Num(5)
    /\ call.field.scale = 2
    /\ call.field.offset = 0
    /\ call.scaling
    /\ ~call.field.is_float
    /\ ret = Returned(2)

====
